---- MODULE Spec2Model ----
(***************************************************************************)
(* The offline edit queue of the AutoDraft frontend                        *)
(* (frontend/src/hooks/useOfflineQueue.ts): a Dexie table of edit records  *)
(* that outlives the page, the React state of one mounted hook instance,   *)
(* and the asynchronous drains (syncOfflineEdits) that send the unsynced   *)
(* records to the server.                                                  *)
(*                                                                         *)
(* Granularity.  An async function runs to its next await in one step.  A  *)
(* table request and the code up to the next await after it are one step   *)
(* (add + setPendingCount, count + setPendingCount, update +               *)
(* setPendingCount + next fetch or finally); a fetch is issued in the step *)
(* that reaches it and settles in a later step.  State setters queue their *)
(* update; Render commits the queued updates and SyncEffect runs the       *)
(* effect of that commit with the values the commit closed over.  Setters  *)
(* called by an async call of a closed view (an orphan) do nothing.        *)
(*                                                                         *)
(* The other parts of the frontend that the document synchronisation rests *)
(* on are modelled next to the queue, each with its own next-state         *)
(* relation over its own variables: the two useEventSource hooks           *)
(* (frontend/src/hooks/useEventSource.ts and the ref-only variant), the    *)
(* docSlice reducers with SectionPanel.handleSave, and usePresence.        *)
(***************************************************************************)
EXTENDS Integers, Sequences, FiniteSets, TLC

\* Bounds of the model.
MaxEdits == 2        \* addToQueue calls over the life of the store
MaxOrphans == 1      \* drains left running by closed views
MaxConns == 4        \* EventSource objects created by one hook
MaxData == 3         \* parsed messages kept apart in the data list
MaxIdle == 2         \* heartbeat periods counted since a user's last heartbeat
MaxRequests == 2     \* login requests, and refresh requests, in flight together

Payloads == {"p", "q"}
Slots == 1..(MaxOrphans + 1)
Outcomes == {"ok", "nonok", "throw"}
NoData == "none"

Null == "null"
SectionIds == {"s1", "s2"}
Titles == {"t"}
Contents == {"x", "y"}
DocIds == {"d1"}
Replicas == {1, 2}
PanelSection == "s1"       \* the sectionId prop of the SectionPanel
UserIds == {"u1"}          \* ids of users that log in on this client
RemoteUsers == {"user2", "user3"}

VARIABLES
  store,         \* offlineEdits table: store[id] = [data, synced], id = ++id key
  navOnline,     \* navigator.onLine
  mounted,       \* a hook instance is mounted
  isOnline,      \* useState(true)
  isSyncing,     \* useState(false)
  pendingCount,  \* useState(0)
  rendered,      \* the state values the last committed render closed over
  effectDue,     \* the sync effect is scheduled for the last commit
  countDue,      \* the mount-time updatePendingCount has not completed
  drains,        \* running syncOfflineEdits calls, by slot
  delivered,     \* ids in the order of their first ok response
  hist           \* per record: what the server and the queue did with it

VARIABLES
  conn,          \* EventSource objects: conn[c] = readyState, or "none"
  esRef,         \* eventSourceRef.current (0 = null)
  esMounted,     \* the component using useEventSource is mounted
  esConnected,   \* isConnected state
  esData,        \* length of the data list (kept apart up to MaxData)
  esError,       \* the error state holds an event (is not null)
  esCancelled,   \* connections that were current when a stop or cleanup ran
  esErrCalls     \* onError invocations made for the latest error event

VARIABLES
  doc,           \* the docSlice state of the local store
  panel,         \* SectionPanel local state: content, isEditing
  replica,       \* docSlice states of independent replicas
  applied,       \* per replica: the edits dispatched to it so far
  savedBusy      \* a save ran while offline with a drain's request pending

VARIABLES
  presUser,      \* state.auth.user as usePresence selects it (Null: none)
  presDocId,     \* the docId argument of usePresence ("": none)
  presMounted,   \* the component using usePresence is mounted
  users,         \* users state: the ids listed
  presConnected, \* isConnected state of usePresence
  presEffectDue, \* the [user, docId] effect has to run
  presCleanup,   \* the effect's last run returned a cleanup
  tabOpen,       \* per remote user: the user's tab is open
  idle           \* per remote user: periods since the last heartbeat

VARIABLES
  auth,          \* the authSlice state
  authEffectDue, \* the [isAuthenticated] effect of useAuth has to run
  authTimer,     \* the refresh interval is set
  logins,        \* login requests in flight
  refreshes      \* token refresh requests in flight

VARIABLES
  readThrew      \* a drain's read of the store has thrown

queueVars == <<store, navOnline, mounted, isOnline, isSyncing, pendingCount,
               rendered, effectDue, countDue, drains, delivered, hist>>

esVars == <<conn, esRef, esMounted, esConnected, esData, esError,
            esCancelled, esErrCalls>>

docVars == <<doc, panel, replica, applied, savedBusy>>

\* What a step of the queue, of an event stream hook, of the document store
\* leaves alone.
presVars == <<presUser, presDocId, presMounted, users, presConnected,
              presEffectDue, presCleanup, tabOpen, idle>>

faultVars == <<readThrew>>

authVars == <<auth, authEffectDue, authTimer, logins, refreshes>>

otherVars == <<esVars, docVars, presVars, authVars>>
restVars == <<otherVars, faultVars>>
esRest == <<queueVars, docVars, presVars, faultVars, authVars>>
docRest == <<queueVars, esVars, presVars, faultVars, authVars>>
presRest == <<queueVars, esVars, docVars, faultVars, authVars>>
authRest == <<queueVars, esVars, docVars, presVars, faultVars>>

vars == <<queueVars, esVars, docVars, presVars, faultVars, authVars>>

hookVars == <<isOnline, isSyncing, pendingCount>>

----
\* Pure helpers.

Ids(st) == 1..Len(st)

\* where('synced').equals(false).toArray(): the unsynced ids, by primary key.
RECURSIVE UnsyncedFrom(_, _)
UnsyncedFrom(st, i) ==
  IF i > Len(st) THEN <<>>
  ELSE (IF st[i].synced THEN <<>> ELSE <<i>>) \o UnsyncedFrom(st, i + 1)

UnsyncedEdits(st) == UnsyncedFrom(st, 1)

\* where('synced').equals(false).count()
UnsyncedCount(st) == Cardinality({i \in Ids(st) : ~st[i].synced})

Max0(n) == IF n < 0 THEN 0 ELSE n

InitialState == [isOnline |-> TRUE, isSyncing |-> FALSE, pendingCount |-> 0]

CurrentState ==
  [isOnline |-> isOnline, isSyncing |-> isSyncing, pendingCount |-> pendingCount]

IdleDrain ==
  [phase |-> "idle", orphan |-> FALSE, snap |-> <<>>, idx |-> 0]

\* addToQueue was called with data p; no send of the record has settled yet.
NewHist(p) == [arg |-> p, out |-> "none", data |-> NoData]

\* The latest send of record id settled with outcome o; it carried st[id].data.
Settled(h, st, id, o) ==
  [h EXCEPT ![id].out = o, ![id].data = st[id].data]

Active(s) == drains[s].phase # "idle"
ActiveSlots == {s \in Slots : Active(s)}
FreeSlot == CHOOSE s \in Slots : ~Active(s)

\* The record a drain is working on.
Cur(s) == drains[s].snap[drains[s].idx]

\* if (response.ok) { update(synced: true) ... }
MarksSyncedAlways(outcome) == outcome \in {"ok", "nonok"}
MarksSynced(outcome) == outcome = "ok"

\* The inner catch: a send that throws is logged and the loop goes on.
AbortOnThrow(d) == Len(d.snap)
LoopAfterThrow(d) == d.idx

\* What of the table is left after the page is closed or reloaded.
MemoryOnly(st) == <<>>
Persisted(st) == st

----
\* docSlice: the payloads and the reducers, as functions of the state.

Section(id, title, content) ==
  [id |-> id, title |-> title, content |-> content]

Sections ==
  {Section(id, ti, c) : id \in SectionIds, ti \in Titles, c \in Contents}

\* Record<string, Section> payloads: every section under its own id.
SectionMaps ==
  UNION {{m \in [S -> Sections] : \A k \in S : m[k].id = k} :
           S \in SUBSET SectionIds}

\* Layout[] payloads, by the keys of their items.
Layouts == {<<>>, <<"s1">>}

\* ComplianceMark[] payloads, by the sections they mark.
MarkLists == {<<>>, <<"s1">>}

Deadline(id, completed) == [id |-> id, completed |-> completed]
DeadlineIds == {"dl", "other"}
DeadlineLists == {<<>>, <<Deadline("dl", FALSE)>>}

\* sections: {}
NoSections == [k \in {} |-> Null]

initialState ==
  [docId |-> Null, sections |-> NoSections, layout |-> <<>>,
   activeSectionId |-> Null, complianceMarks |-> <<>>, deadlines |-> <<>>,
   isLoading |-> FALSE, error |-> Null]

\* state.sections[id] = action.payload
Put(m, id, v) ==
  [k \in DOMAIN m \cup {id} |-> IF k = id THEN v ELSE m[k]]

setDocId(state, payload) == [state EXCEPT !.docId = payload]

setSections(state, payload) == [state EXCEPT !.sections = payload]

updateSection(state, payload) ==
  [state EXCEPT !.sections = Put(state.sections, payload.id, payload)]

setLayout(state, payload) == [state EXCEPT !.layout = payload]

setActiveSection(state, payload) ==
  [state EXCEPT !.activeSectionId = payload]

setComplianceMarks(state, payload) ==
  [state EXCEPT !.complianceMarks = payload]

setDeadlines(state, payload) == [state EXCEPT !.deadlines = payload]

updateDeadline(state, payload) ==
  [state EXCEPT !.deadlines =
     [i \in DOMAIN state.deadlines |->
        IF /\ state.deadlines[i].id = payload.id
           /\ \A j \in 1..(i - 1) : state.deadlines[j].id # payload.id
        THEN [state.deadlines[i] EXCEPT !.completed = payload.completed]
        ELSE state.deadlines[i]]]

----
\* authSlice: the payloads and the reducers, as functions of the state.

Expiries == {1, 2}       \* accessExp values the server hands out (times, > 0)
NoExpiry == 0            \* accessExp: null
LoginErrors == {"Invalid email or password"}

authInitialState ==
  [user |-> Null, accessExp |-> NoExpiry, isLoading |-> FALSE, error |-> Null,
   isAuthenticated |-> FALSE]

loginStart(state) == [state EXCEPT !.isLoading = TRUE, !.error = Null]

loginSuccess(state, payload) ==
  [state EXCEPT !.isLoading = FALSE, !.user = payload.user,
                !.accessExp = payload.accessExp, !.error = Null,
                !.isAuthenticated = TRUE]

loginFailure(state, payload) ==
  [state EXCEPT !.isLoading = FALSE, !.error = payload,
                !.isAuthenticated = FALSE]

logout(state) ==
  [state EXCEPT !.user = Null, !.accessExp = NoExpiry,
                !.isAuthenticated = FALSE]

refreshToken(state, payload) == [state EXCEPT !.accessExp = payload]

----
Init ==
  /\ store = <<>>
  /\ navOnline = TRUE
  /\ mounted = FALSE
  /\ isOnline = TRUE
  /\ isSyncing = FALSE
  /\ pendingCount = 0
  /\ rendered = InitialState
  /\ effectDue = FALSE
  /\ countDue = FALSE
  /\ drains = [s \in Slots |-> IdleDrain]
  /\ delivered = <<>>
  /\ hist = <<>>
  /\ readThrew = FALSE
  /\ auth = authInitialState
  /\ authEffectDue = FALSE
  /\ authTimer = FALSE
  /\ logins = 0
  /\ refreshes = 0
  /\ conn = [c \in 1..MaxConns |-> "none"]
  /\ esRef = 0
  /\ esMounted = FALSE
  /\ esConnected = FALSE
  /\ esData = 0
  /\ esError = FALSE
  /\ esCancelled = {}
  /\ esErrCalls = 0
  /\ doc = initialState
  /\ panel = [content |-> "", isEditing |-> FALSE]
  /\ replica = [r \in Replicas |-> initialState]
  /\ applied = [r \in Replicas |-> {}]
  /\ savedBusy = FALSE
  /\ presUser = Null
  /\ presDocId = ""
  /\ presMounted = FALSE
  /\ users = {}
  /\ presConnected = FALSE
  /\ presEffectDue = FALSE
  /\ presCleanup = FALSE
  /\ tabOpen = [u \in RemoteUsers |-> TRUE]
  /\ idle = [u \in RemoteUsers |-> 0]

\* The hook's setters do nothing once its view is closed.
SetIsSyncing(d, v) == IF d.orphan THEN isSyncing ELSE v
SetPendingDec(d) == IF d.orphan THEN pendingCount ELSE Max0(pendingCount - 1)

\* finally { setIsSyncing(false) } of the drain d.
NoFinally(d) == isSyncing
Finally(d) == SetIsSyncing(d, FALSE)

\* The drain in slot s is done with the record at position last of its
\* snapshot: it issues the fetch of the next record, or leaves the loop and
\* runs finally { setIsSyncing(false) }.
Advance(s, last) ==
  LET d == drains[s] IN
  IF last < Len(d.snap)
    THEN /\ drains' = [drains EXCEPT ![s].phase = "send", ![s].idx = last + 1]
         /\ isSyncing' = isSyncing
    ELSE /\ drains' = [drains EXCEPT ![s] = IdleDrain]
         /\ isSyncing' = Finally(d)

----
\* Mount: first render with the initial state; the three effects run.
\* setIsOnline(navigator.onLine); updatePendingCount() is started; the sync
\* effect sees isOnline = true, pendingCount = 0 and does nothing.
Mount ==
  /\ ~mounted
  /\ mounted' = TRUE
  /\ isOnline' = navOnline
  /\ isSyncing' = FALSE
  /\ pendingCount' = 0
  /\ rendered' = InitialState
  /\ effectDue' = FALSE
  /\ countDue' = TRUE
  /\ UNCHANGED <<store, navOnline, drains, delivered, hist>>
  /\ UNCHANGED restVars

\* updatePendingCount: count of unsynced records, then setPendingCount(count).
UpdatePendingCount ==
  /\ mounted /\ countDue
  /\ countDue' = FALSE
  /\ pendingCount' = UnsyncedCount(store)
  /\ UNCHANGED <<store, navOnline, mounted, isOnline, isSyncing, rendered,
                 effectDue, drains, delivered, hist>>
  /\ UNCHANGED restVars

\* React commits a render of the queued state updates; the sync effect is
\* scheduled when one of its deps [isOnline, pendingCount] changed.
RenderOnlineDepOnly ==
  /\ mounted /\ ~effectDue
  /\ CurrentState # rendered
  /\ rendered' = CurrentState
  /\ effectDue' = (rendered.isOnline # isOnline)
  /\ UNCHANGED <<store, navOnline, mounted, hookVars, countDue, drains,
                 delivered, hist>>
  /\ UNCHANGED restVars

Render ==
  /\ mounted /\ ~effectDue
  /\ CurrentState # rendered
  /\ rendered' = CurrentState
  /\ effectDue' = (rendered.isOnline # isOnline
                   \/ rendered.pendingCount # pendingCount)
  /\ UNCHANGED <<store, navOnline, mounted, hookVars, countDue, drains,
                 delivered, hist>>
  /\ UNCHANGED restVars

\* syncOfflineEdits() as the render's closure sees it: if (isSyncing) return;
\* setIsSyncing(true); then the read of the unsynced records is awaited.
SyncOfflineEdits(closure) ==
  IF closure.isSyncing
    THEN UNCHANGED <<isSyncing, drains>>
    ELSE /\ isSyncing' = TRUE
         /\ drains' = [drains EXCEPT ![FreeSlot] =
                         [IdleDrain EXCEPT !.phase = "read"]]

\* The effect's call gets past the isSyncing test (the drains that run at one
\* time are bounded by Slots).
StartsDrain(closure) ==
  closure.isOnline /\ closure.pendingCount > 0 /\ ~closure.isSyncing

\* The sync effect: if (isOnline && pendingCount > 0) syncOfflineEdits().
SyncEffect ==
  /\ mounted /\ effectDue
  /\ ~StartsDrain(rendered) \/ \E s \in Slots : ~Active(s)
  /\ effectDue' = FALSE
  /\ IF rendered.isOnline /\ rendered.pendingCount > 0
       THEN SyncOfflineEdits(rendered)
       ELSE UNCHANGED <<isSyncing, drains>>
  /\ UNCHANGED <<store, navOnline, mounted, isOnline, pendingCount, rendered,
                 countDue, delivered, hist>>
  /\ UNCHANGED restVars

\* addToQueue(url, method, data): add the record, then count it.
AddToQueueOfflineOnly(p) ==
  /\ mounted /\ ~isOnline
  /\ Len(store) < MaxEdits
  /\ store' = Append(store, [data |-> p, synced |-> FALSE])
  /\ hist' = Append(hist, NewHist(p))
  /\ pendingCount' = pendingCount + 1
  /\ UNCHANGED <<navOnline, mounted, isOnline, isSyncing, rendered, effectDue,
                 countDue, drains, delivered>>
  /\ UNCHANGED restVars

AddToQueue(p) ==
  /\ mounted
  /\ Len(store) < MaxEdits
  /\ store' = Append(store, [data |-> p, synced |-> FALSE])
  /\ hist' = Append(hist, NewHist(p))
  /\ pendingCount' = pendingCount + 1
  /\ UNCHANGED <<navOnline, mounted, isOnline, isSyncing, rendered, effectDue,
                 countDue, drains, delivered>>
  /\ UNCHANGED restVars

\* window 'online' / 'offline' events: handleOnline, handleOffline.
GoOnline ==
  /\ ~navOnline
  /\ navOnline' = TRUE
  /\ isOnline' = IF mounted THEN TRUE ELSE isOnline
  /\ UNCHANGED <<store, mounted, isSyncing, pendingCount, rendered, effectDue,
                 countDue, drains, delivered, hist>>
  /\ UNCHANGED restVars

GoOffline ==
  /\ navOnline
  /\ navOnline' = FALSE
  /\ isOnline' = IF mounted THEN FALSE ELSE isOnline
  /\ UNCHANGED <<store, mounted, isSyncing, pendingCount, rendered, effectDue,
                 countDue, drains, delivered, hist>>
  /\ UNCHANGED restVars

\* The drain's read of the unsynced records completes.  With nothing to send
\* the loop is empty and finally runs; else the first fetch is issued.
DrainRead(s) ==
  /\ drains[s].phase = "read"
  /\ LET snap == UnsyncedEdits(store) IN
       IF snap = <<>>
         THEN /\ drains' = [drains EXCEPT ![s] = IdleDrain]
              /\ isSyncing' = Finally(drains[s])
         ELSE /\ drains' = [drains EXCEPT ![s].phase = "send", ![s].idx = 1,
                                          ![s].snap = snap]
              /\ isSyncing' = isSyncing
  /\ UNCHANGED <<store, navOnline, mounted, isOnline, pendingCount, rendered,
                 effectDue, countDue, delivered, hist>>
  /\ UNCHANGED restVars

\* The read rejects: outer catch, then finally.  A fault of the table itself;
\* it is a step of FaultNext only.
DrainReadThrows(s) ==
  /\ drains[s].phase = "read"
  /\ drains' = [drains EXCEPT ![s] = IdleDrain]
  /\ isSyncing' = Finally(drains[s])
  /\ readThrew' = TRUE
  /\ UNCHANGED <<store, navOnline, mounted, isOnline, pendingCount, rendered,
                 effectDue, countDue, delivered, hist>>
  /\ UNCHANGED otherVars

\* The fetch of the current record settles: a response (ok or not), or a
\* throw (no network, or the request could not be built).
Settles(o) == IF navOnline THEN o \in Outcomes ELSE o = "throw"

DrainResponse(s, o) ==
  /\ drains[s].phase = "send"
  /\ Settles(o)
  /\ LET d == drains[s]
         id == Cur(s)
     IN
       /\ hist' = Settled(hist, store, id, o)
       /\ delivered' = IF o = "ok" /\ \A k \in 1..Len(delivered) : delivered[k] # id
                         THEN Append(delivered, id) ELSE delivered
       /\ IF MarksSynced(o)
            THEN /\ drains' = [drains EXCEPT ![s].phase = "mark"]
                 /\ isSyncing' = isSyncing
            ELSE IF o = "throw"
                   THEN Advance(s, LoopAfterThrow(d))
                   ELSE Advance(s, d.idx)
  /\ UNCHANGED <<store, navOnline, mounted, isOnline, pendingCount, rendered,
                 effectDue, countDue>>
  /\ UNCHANGED restVars

\* await update(edit.id, {synced: true}); setPendingCount(max(0, prev - 1)).
DrainMark(s) ==
  /\ drains[s].phase = "mark"
  /\ LET d == drains[s]
         id == Cur(s)
         st == [store EXCEPT ![id].synced = TRUE]
     IN /\ store' = st
        /\ pendingCount' = SetPendingDec(d)
        /\ Advance(s, d.idx)
  /\ UNCHANGED <<navOnline, mounted, isOnline, rendered, effectDue, countDue,
                 delivered, hist>>
  /\ UNCHANGED restVars

\* The view is closed: the hook's state is gone, its async calls run on.
Unmount ==
  /\ mounted
  /\ Cardinality(ActiveSlots) <= MaxOrphans
  /\ mounted' = FALSE
  /\ isOnline' = TRUE
  /\ isSyncing' = FALSE
  /\ pendingCount' = 0
  /\ rendered' = InitialState
  /\ effectDue' = FALSE
  /\ countDue' = FALSE
  /\ drains' = [s \in Slots |->
                  IF Active(s) THEN [drains[s] EXCEPT !.orphan = TRUE]
                  ELSE drains[s]]
  /\ store' = Persisted(store)
  /\ UNCHANGED <<navOnline, delivered, hist>>
  /\ UNCHANGED restVars

\* The page is reloaded or the process dies: only the table is left.
Restart ==
  /\ mounted \/ ActiveSlots # {}
  /\ mounted' = FALSE
  /\ isOnline' = TRUE
  /\ isSyncing' = FALSE
  /\ pendingCount' = 0
  /\ rendered' = InitialState
  /\ effectDue' = FALSE
  /\ countDue' = FALSE
  /\ drains' = [s \in Slots |-> IdleDrain]
  /\ store' = Persisted(store)
  /\ UNCHANGED <<navOnline, delivered, hist>>
  /\ UNCHANGED restVars

Next ==
  \/ Mount
  \/ UpdatePendingCount
  \/ Render
  \/ SyncEffect
  \/ \E p \in Payloads : AddToQueue(p)
  \/ GoOnline
  \/ GoOffline
  \/ \E s \in Slots : DrainRead(s)
  \/ \E s \in Slots : \E o \in Outcomes : DrainResponse(s, o)
  \/ \E s \in Slots : DrainMark(s)
  \/ Unmount
  \/ Restart

Spec == Init /\ [][Next]_vars

\* The event loop runs every continuation that is ready.
FairSpec ==
  /\ Init /\ [][Next]_vars
  /\ WF_vars(UpdatePendingCount)
  /\ WF_vars(Render)
  /\ WF_vars(SyncEffect)
  /\ \A s \in Slots : WF_vars(DrainRead(s))
  /\ \A s \in Slots : WF_vars(\E o \in Outcomes : DrainResponse(s, o))
  /\ \A s \in Slots : WF_vars(DrainMark(s))

\* React has committed the latest state and run the effect it scheduled.
UiSettled == CurrentState = rendered /\ ~effectDue

\* The queue of one open view on a client that stays online, with React
\* committing and running its effect before the next user call, store
\* request or network response is handled.
StaysOnlineNext ==
  \/ Mount
  \/ Render
  \/ SyncEffect
  \/ UiSettled /\ UpdatePendingCount
  \/ UiSettled /\ \E p \in Payloads : AddToQueue(p)
  \/ UiSettled /\ \E s \in Slots : DrainRead(s)
  \/ UiSettled /\ \E s \in Slots : \E o \in Outcomes : DrainResponse(s, o)
  \/ UiSettled /\ \E s \in Slots : DrainMark(s)

StaysOnlineSpec == Init /\ [][StaysOnlineNext]_vars

\* The queue while its view stays open, on a store whose reads can fail.
FaultNext ==
  \/ Mount
  \/ UpdatePendingCount
  \/ Render
  \/ SyncEffect
  \/ \E p \in Payloads : AddToQueue(p)
  \/ GoOnline
  \/ GoOffline
  \/ \E s \in Slots : DrainRead(s)
  \/ \E s \in Slots : DrainReadThrows(s)
  \/ \E s \in Slots : \E o \in Outcomes : DrainResponse(s, o)
  \/ \E s \in Slots : DrainMark(s)

FaultSpec == Init /\ [][FaultNext]_vars

\* The event loop runs every continuation that is ready, and every request
\* (of the store, of the network) settles.
FaultFairSpec ==
  /\ Init /\ [][FaultNext]_vars
  /\ WF_vars(UpdatePendingCount)
  /\ WF_vars(Render)
  /\ WF_vars(SyncEffect)
  /\ \A s \in Slots : WF_vars(DrainRead(s) \/ DrainReadThrows(s))
  /\ \A s \in Slots : WF_vars(\E o \in Outcomes : DrainResponse(s, o))
  /\ \A s \in Slots : WF_vars(DrainMark(s))

----
(***************************************************************************)
(* useEventSource.  An EventSource is in readyState "connecting", "open"   *)
(* or "closed" ("none": not constructed yet).  The browser dispatches      *)
(* open, message and error events only to an EventSource that is not       *)
(* closed: close() discards whatever was queued for it.  An error event is *)
(* one of three kinds: "network" (the stream dropped and the browser has   *)
(* put the object back to "connecting" to retry on its own), "fatal" (the  *)
(* browser has given up and closed the object) and "named" (the server     *)
(* sent an event whose name is error; the object stays open).              *)
(***************************************************************************)
Conns == 1..MaxConns
ErrorKinds == {"network", "fatal", "named"}

Created == {c \in Conns : conn[c] # "none"}
NextConn == Cardinality(Created) + 1

\* The connections the ref points to (none when it is null).
CurrentConn == IF esRef = 0 THEN {} ELSE {esRef}

\* readyState the browser leaves an EventSource in when it fires the error.
BrowserState(cn, c, kind) ==
  [cn EXCEPT ![c] = CASE kind = "network" -> "connecting"
                      [] kind = "fatal" -> "closed"
                      [] OTHER -> cn[c]]

\* eventSourceRef.current.close() of stopEventSource, on the readyStates cn.
StopLeavesOpen(cn, ref) == cn
CloseCurrent(cn, ref) ==
  IF ref = 0 THEN cn ELSE [cn EXCEPT ![ref] = "closed"]

AddData(n, parses) == IF parses /\ n < MaxData THEN n + 1 ELSE n

\* setIsConnected(false) of stopEventSource, run only when the ref is set.
StopKeepsConnected(ref, cur) == cur
StopDisconnects(ref, cur) == IF ref # 0 THEN FALSE ELSE cur

\* useEventSource.ts: stopEventSource
StopEventSource ==
  /\ esMounted
  /\ conn' = CloseCurrent(conn, esRef)
  /\ esRef' = 0
  /\ esConnected' = StopDisconnects(esRef, esConnected)
  /\ esCancelled' = esCancelled \cup CurrentConn
  /\ UNCHANGED <<esMounted, esData, esError, esErrCalls>>
  /\ UNCHANGED esRest

\* useEventSource.ts: startEventSource (stops the current one first)
StartEventSource ==
  /\ esMounted
  /\ NextConn <= MaxConns
  /\ conn' = [CloseCurrent(conn, esRef) EXCEPT ![NextConn] = "connecting"]
  /\ esRef' = NextConn
  /\ esConnected' = StopDisconnects(esRef, esConnected)
  /\ esCancelled' = esCancelled \cup CurrentConn
  /\ UNCHANGED <<esMounted, esData, esError, esErrCalls>>
  /\ UNCHANGED esRest

\* useEventSource.ts: eventSource.onopen
OnOpen(c) ==
  /\ conn[c] = "connecting"
  /\ conn' = [conn EXCEPT ![c] = "open"]
  /\ esConnected' = (IF esMounted THEN TRUE ELSE esConnected)
  /\ UNCHANGED <<esRef, esMounted, esData, esError, esCancelled, esErrCalls>>
  /\ UNCHANGED esRest

\* useEventSource.ts: the 'message' listener
OnMessage(c, parses) ==
  /\ conn[c] = "open"
  /\ esData' = (IF esMounted THEN AddData(esData, parses) ELSE esData)
  /\ UNCHANGED <<conn, esRef, esMounted, esConnected, esError, esCancelled,
                 esErrCalls>>
  /\ UNCHANGED esRest

\* useEventSource.ts: the 'error' listener followed by eventSource.onerror;
\* both run for one error event, and each calls onError and stopEventSource.
OnError(c, kind, parses) ==
  /\ conn[c] \in {"connecting", "open"}
  /\ kind = "named" => conn[c] = "open"
  /\ kind # "named" => ~parses
  /\ conn' = CloseCurrent(BrowserState(conn, c, kind), esRef)
  /\ esRef' = 0
  /\ esConnected' = (IF esMounted THEN FALSE ELSE esConnected)
  /\ esData' = (IF esMounted THEN AddData(esData, parses) ELSE esData)
  /\ esCancelled' = esCancelled \cup CurrentConn
  /\ esError' = (IF esMounted THEN TRUE ELSE esError)
  /\ esErrCalls' = 2
  /\ UNCHANGED esMounted
  /\ UNCHANGED esRest

\* The component that uses the hook is mounted: fresh state, fresh ref.
EsMount ==
  /\ ~esMounted
  /\ esMounted' = TRUE
  /\ esRef' = 0
  /\ esConnected' = FALSE
  /\ esData' = 0
  /\ esError' = FALSE
  /\ UNCHANGED <<conn, esCancelled, esErrCalls>>
  /\ UNCHANGED esRest

\* useEventSource.ts: the unmount cleanup effect
EsUnmount ==
  /\ esMounted
  /\ esMounted' = FALSE
  /\ conn' = CloseCurrent(conn, esRef)
  /\ esRef' = 0
  /\ esConnected' = FALSE
  /\ esData' = 0
  /\ esError' = FALSE
  /\ esCancelled' = esCancelled \cup CurrentConn
  /\ UNCHANGED esErrCalls
  /\ UNCHANGED esRest

\* useEventSource.ts: reset
Reset ==
  /\ esMounted
  /\ esData' = 0
  /\ esError' = FALSE
  /\ UNCHANGED <<conn, esRef, esMounted, esConnected, esCancelled, esErrCalls>>
  /\ UNCHANGED esRest

EsNext ==
  \/ EsMount
  \/ StartEventSource
  \/ StopEventSource
  \/ \E c \in Conns : OnOpen(c)
  \/ \E c \in Conns : \E parses \in BOOLEAN : OnMessage(c, parses)
  \/ \E c \in Conns : \E kind \in ErrorKinds : \E parses \in BOOLEAN :
       OnError(c, kind, parses)
  \/ Reset
  \/ EsUnmount

EsSpec == Init /\ [][EsNext]_vars

\* The browser delivers a ready event, and retries a dropped stream.
EsFairSpec ==
  /\ Init /\ [][EsNext]_vars
  /\ \A c \in Conns : WF_vars(OnOpen(c))

(***************************************************************************)
(* The ref-only useEventSource (no state, no unmount cleanup).  Its        *)
(* startEventSource returns a cleanup closure over the EventSource it      *)
(* made.                                                                   *)
(***************************************************************************)
\* if (eventSourceRef.current) eventSourceRef.current.close()
KeepPrevious(cn, ref) == cn
ClosePrevious(cn, ref) ==
  IF ref = 0 THEN cn ELSE [cn EXCEPT ![ref] = "closed"]

\* startEventSource: closes the current one without clearing the ref
RefStartEventSource ==
  /\ NextConn <= MaxConns
  /\ conn' = [ClosePrevious(conn, esRef) EXCEPT ![NextConn] = "connecting"]
  /\ esRef' = NextConn
  /\ UNCHANGED <<esMounted, esConnected, esData, esError, esCancelled,
                 esErrCalls>>
  /\ UNCHANGED esRest

\* stopEventSource
RefStopEventSource ==
  /\ conn' = CloseCurrent(conn, esRef)
  /\ esRef' = 0
  /\ esCancelled' = esCancelled \cup CurrentConn
  /\ UNCHANGED <<esMounted, esConnected, esData, esError, esErrCalls>>
  /\ UNCHANGED esRest

\* eventSource.onopen: only the caller's onOpen
RefOnOpen(c) ==
  /\ conn[c] = "connecting"
  /\ conn' = [conn EXCEPT ![c] = "open"]
  /\ UNCHANGED <<esRef, esMounted, esConnected, esData, esError,
                 esCancelled, esErrCalls>>
  /\ UNCHANGED esRest

\* eventSource.onmessage: only the caller's onMessage
RefOnMessage(c) ==
  /\ conn[c] = "open"
  /\ esData' = AddData(esData, TRUE)
  /\ UNCHANGED <<conn, esRef, esMounted, esConnected, esError, esCancelled,
                 esErrCalls>>
  /\ UNCHANGED esRest

\* eventSource.onerror: onError, close this EventSource, clear the ref
RefOnError(c, kind) ==
  /\ conn[c] \in {"connecting", "open"}
  /\ kind = "named" => conn[c] = "open"
  /\ conn' = CloseCurrent(BrowserState(conn, c, kind), c)
  /\ esRef' = 0
  /\ esErrCalls' = 1
  /\ UNCHANGED <<esMounted, esConnected, esData, esError, esCancelled>>
  /\ UNCHANGED esRest

\* the cleanup closure returned by the startEventSource call that made c
RefCleanup(c) ==
  /\ c \in Created
  /\ conn' = CloseCurrent(conn, c)
  /\ esRef' = 0
  /\ esCancelled' = esCancelled \cup {c}
  /\ UNCHANGED <<esMounted, esConnected, esData, esError, esErrCalls>>
  /\ UNCHANGED esRest

RefNext ==
  \/ RefStartEventSource
  \/ RefStopEventSource
  \/ \E c \in Conns : RefOnOpen(c)
  \/ \E c \in Conns : RefOnMessage(c)
  \/ \E c \in Conns : \E kind \in ErrorKinds : RefOnError(c, kind)
  \/ \E c \in Conns : RefCleanup(c)

RefSpec == Init /\ [][RefNext]_vars

\* The hook driven by start and stop calls and by the browser's events only
\* (the caller drops the cleanup closure).
RefEventsNext ==
  \/ RefStartEventSource
  \/ RefStopEventSource
  \/ \E c \in Conns : RefOnOpen(c)
  \/ \E c \in Conns : RefOnMessage(c)
  \/ \E c \in Conns : \E kind \in ErrorKinds : RefOnError(c, kind)

RefEventsSpec == Init /\ [][RefEventsNext]_vars

\* The EventSource of the latest startEventSource call, and the ones that a
\* later call has superseded.
Newest == Cardinality(Created)
Superseded(c) == c \in Created /\ c < Newest

\* The EventSource objects that are connecting or open.
Live == {c \in Conns : conn[c] \in {"connecting", "open"}}

----
(***************************************************************************)
(* The document store.  Each reducer is one dispatch.  SectionPanel        *)
(* re-renders on every store change and its effect copies the content of   *)
(* its section into the local content whenever the section object is a new *)
(* one; both happen before the next user event is handled.                 *)
(***************************************************************************)
\* SectionPanel: useEffect(() => { if (section) setContent(...) }, [section])
\* (replaced: the dispatch put a new object under the panel's section id)
PanelAfter(new, replaced) ==
  IF replaced /\ PanelSection \in DOMAIN new.sections
  THEN [panel EXCEPT !.content = new.sections[PanelSection].content]
  ELSE panel

Dispatch(new, replaced) ==
  /\ doc' = new
  /\ panel' = PanelAfter(new, replaced)
  /\ UNCHANGED <<replica, applied, savedBusy>>
  /\ UNCHANGED docRest

SetDocId(payload) == Dispatch(setDocId(doc, payload), FALSE)
SetSections(payload) == Dispatch(setSections(doc, payload), TRUE)
UpdateSection(payload) ==
  Dispatch(updateSection(doc, payload), payload.id = PanelSection)
SetLayout(payload) == Dispatch(setLayout(doc, payload), FALSE)
SetActiveSection(payload) == Dispatch(setActiveSection(doc, payload), FALSE)
SetComplianceMarks(payload) ==
  Dispatch(setComplianceMarks(doc, payload), FALSE)
SetDeadlines(payload) == Dispatch(setDeadlines(doc, payload), FALSE)
UpdateDeadline(payload) == Dispatch(updateDeadline(doc, payload), FALSE)

\* SectionPanel renders its buttons only when its section exists.
PanelShown == PanelSection \in DOMAIN doc.sections

\* SectionPanel: handleEdit
HandleEdit ==
  /\ PanelShown /\ ~panel.isEditing
  /\ panel' = [panel EXCEPT !.isEditing = TRUE]
  /\ UNCHANGED <<doc, replica, applied, savedBusy>>
  /\ UNCHANGED docRest

\* SectionPanel: the textarea's onChange
ChangeContent(c) ==
  /\ PanelShown /\ panel.isEditing
  /\ panel' = [panel EXCEPT !.content = c]
  /\ UNCHANGED <<doc, replica, applied, savedBusy>>
  /\ UNCHANGED docRest

\* A request of a drain is on the wire.
RequestPending == \E s \in Slots : drains[s].phase = "send"

\* What may keep the Save button from acting.
SaveOnlyWhenIdle == navOnline /\ ~isSyncing /\ ~RequestPending
SaveAllowed == TRUE

\* SectionPanel: handleSave
HandleSave ==
  /\ PanelShown /\ panel.isEditing
  /\ SaveAllowed
  /\ doc' = updateSection(doc, Section(PanelSection,
                                       doc.sections[PanelSection].title,
                                       panel.content))
  /\ panel' = [panel EXCEPT !.isEditing = FALSE]
  /\ savedBusy' = (savedBusy \/ (~navOnline /\ isSyncing /\ RequestPending))
  /\ UNCHANGED <<replica, applied>>
  /\ UNCHANGED docRest

DocNext ==
  \/ \E payload \in DocIds : SetDocId(payload)
  \/ \E payload \in SectionMaps : SetSections(payload)
  \/ \E payload \in Sections : UpdateSection(payload)
  \/ \E payload \in Layouts : SetLayout(payload)
  \/ \E payload \in SectionIds : SetActiveSection(payload)
  \/ \E payload \in MarkLists : SetComplianceMarks(payload)
  \/ \E payload \in DeadlineLists : SetDeadlines(payload)
  \/ \E id \in DeadlineIds : \E completed \in BOOLEAN :
       UpdateDeadline(Deadline(id, completed))
  \/ HandleEdit
  \/ \E c \in Contents : ChangeContent(c)
  \/ HandleSave

DocSpec == Init /\ [][DocNext]_vars

\* The panel of one section next to the offline queue of the same page: the
\* queue's steps while its view stays open, edits of the section arriving in
\* the store, and the user's edit, typing and save.
SaveNext ==
  \/ Mount
  \/ UpdatePendingCount
  \/ Render
  \/ SyncEffect
  \/ \E p \in Payloads : AddToQueue(p)
  \/ GoOnline
  \/ GoOffline
  \/ \E s \in Slots : DrainRead(s)
  \/ \E s \in Slots : \E o \in Outcomes : DrainResponse(s, o)
  \/ \E s \in Slots : DrainMark(s)
  \/ \E ti \in Titles : \E c \in Contents :
       UpdateSection(Section(PanelSection, ti, c))
  \/ HandleEdit
  \/ \E c \in Contents : ChangeContent(c)
  \/ HandleSave

SaveSpec == Init /\ [][SaveNext]_vars

\* Independent replicas of the store, each applying the same edits once, in
\* its own order.
ApplyEdit(r, e) ==
  /\ e \notin applied[r]
  /\ replica' = [replica EXCEPT ![r] = updateSection(replica[r], e)]
  /\ applied' = [applied EXCEPT ![r] = applied[r] \cup {e}]
  /\ UNCHANGED <<doc, panel, savedBusy>>
  /\ UNCHANGED docRest

\* The same edit dispatched once more to a replica that has applied it.
Replay(r, e) ==
  /\ e \in applied[r]
  /\ replica' = [replica EXCEPT ![r] = updateSection(replica[r], e)]
  /\ UNCHANGED <<doc, panel, applied, savedBusy>>
  /\ UNCHANGED docRest

ConvergeNext == \E r \in Replicas : \E e \in Sections : ApplyEdit(r, e)

ConvergeSpec == Init /\ [][ConvergeNext]_vars

ReplayNext ==
  \/ \E r \in Replicas : \E e \in Sections : ApplyEdit(r, e)
  \/ \E r \in Replicas : \E e \in Sections : Replay(r, e)

ReplaySpec == Init /\ [][ReplayNext]_vars

----
(***************************************************************************)
(* usePresence.  The hook's only effect depends on [user, docId].  The     *)
(* remote users, their tabs and their heartbeats are the environment: the  *)
(* hook has no code that reads them.                                       *)
(***************************************************************************)
\* usePresence(docId) is rendered for the first time
PresMount(d) ==
  /\ ~presMounted
  /\ presMounted' = TRUE
  /\ presDocId' = d
  /\ users' = {}
  /\ presConnected' = FALSE
  /\ presEffectDue' = TRUE
  /\ presCleanup' = FALSE
  /\ UNCHANGED <<presUser, tabOpen, idle>>
  /\ UNCHANGED presRest

\* state.auth.user changes (login, logout)
PresUserChange(u) ==
  /\ u # presUser
  /\ presUser' = u
  /\ presEffectDue' = presMounted
  /\ UNCHANGED <<presDocId, presMounted, users, presConnected, presCleanup,
                 tabOpen, idle>>
  /\ UNCHANGED presRest

\* the component passes another docId
PresDocChange(d) ==
  /\ presMounted
  /\ d # presDocId
  /\ presDocId' = d
  /\ presEffectDue' = TRUE
  /\ UNCHANGED <<presUser, presMounted, users, presConnected, presCleanup,
                 tabOpen, idle>>
  /\ UNCHANGED presRest

\* the users the effect lists
MockUsers(u) == {u, "user2", "user3"}

\* the effect: the cleanup of its last run, then its body
PresenceEffect ==
  /\ presMounted /\ presEffectDue
  /\ presEffectDue' = FALSE
  /\ IF presUser = Null \/ presDocId = ""
     THEN /\ presConnected' = (IF presCleanup THEN FALSE ELSE presConnected)
          /\ presCleanup' = FALSE
          /\ UNCHANGED users
     ELSE /\ users' = MockUsers(presUser)
          /\ presConnected' = TRUE
          /\ presCleanup' = TRUE
  /\ UNCHANGED <<presUser, presDocId, presMounted, tabOpen, idle>>
  /\ UNCHANGED presRest

\* the component is unmounted: the cleanup runs, the state is dropped
PresUnmount ==
  /\ presMounted
  /\ presMounted' = FALSE
  /\ users' = {}
  /\ presConnected' = FALSE
  /\ presEffectDue' = FALSE
  /\ presCleanup' = FALSE
  /\ UNCHANGED <<presUser, presDocId, tabOpen, idle>>
  /\ UNCHANGED presRest

\* a remote user's client sends a heartbeat
Heartbeat(u) ==
  /\ tabOpen[u]
  /\ idle[u] > 0
  /\ idle' = [idle EXCEPT ![u] = 0]
  /\ UNCHANGED <<presUser, presDocId, presMounted, users, presConnected,
                 presEffectDue, presCleanup, tabOpen>>
  /\ UNCHANGED presRest

\* a remote user closes the tab
CloseTab(u) ==
  /\ tabOpen[u]
  /\ tabOpen' = [tabOpen EXCEPT ![u] = FALSE]
  /\ UNCHANGED <<presUser, presDocId, presMounted, users, presConnected,
                 presEffectDue, presCleanup, idle>>
  /\ UNCHANGED presRest

\* a heartbeat period passes
Tick ==
  /\ \E u \in RemoteUsers : idle[u] < MaxIdle
  /\ idle' = [u \in RemoteUsers |->
                IF idle[u] < MaxIdle THEN idle[u] + 1 ELSE idle[u]]
  /\ UNCHANGED <<presUser, presDocId, presMounted, users, presConnected,
                 presEffectDue, presCleanup, tabOpen>>
  /\ UNCHANGED presRest

PresNext ==
  \/ \E d \in {""} \cup DocIds : PresMount(d)
  \/ \E u \in {Null} \cup UserIds : PresUserChange(u)
  \/ \E d \in {""} \cup DocIds : PresDocChange(d)
  \/ PresenceEffect
  \/ PresUnmount
  \/ \E u \in RemoteUsers : Heartbeat(u)
  \/ \E u \in RemoteUsers : CloseTab(u)
  \/ Tick

PresSpec == Init /\ [][PresNext]_vars

\* React runs a due effect; time passes.
PresFairSpec ==
  /\ Init /\ [][PresNext]_vars
  /\ WF_vars(PresenceEffect)
  /\ WF_vars(Tick)

\* The last heartbeat of u is older than the timeout.
Stale(u) == idle[u] >= MaxIdle

----
\* The component calls the syncOfflineEdits the hook returned: the one of the
\* latest render, or (stale) one it kept from a render in which isSyncing
\* was false.
CallSyncOfflineEdits(stale) ==
  /\ mounted
  /\ \E s \in Slots : ~Active(s)
  /\ SyncOfflineEdits(IF stale THEN [rendered EXCEPT !.isSyncing = FALSE]
                               ELSE rendered)
  /\ UNCHANGED <<store, navOnline, mounted, isOnline, pendingCount, rendered,
                 effectDue, countDue, delivered, hist>>
  /\ UNCHANGED restVars

\* The queue while its view stays open, with a component that calls
\* syncOfflineEdits itself.
CallerNext ==
  \/ Mount
  \/ UpdatePendingCount
  \/ Render
  \/ SyncEffect
  \/ \E p \in Payloads : AddToQueue(p)
  \/ GoOnline
  \/ GoOffline
  \/ \E s \in Slots : DrainRead(s)
  \/ \E s \in Slots : \E o \in Outcomes : DrainResponse(s, o)
  \/ \E s \in Slots : DrainMark(s)
  \/ \E stale \in BOOLEAN : CallSyncOfflineEdits(stale)

CallerSpec == Init /\ [][CallerNext]_vars

----
(***************************************************************************)
(* useAuth.  The refresh effect depends on isAuthenticated: it sets the    *)
(* 5-minute interval when the user is authenticated and clears it when not.*)
(* Each tick of the interval starts a refresh request; clearing the        *)
(* interval does nothing to a request already in flight.                   *)
(***************************************************************************)
\* One dispatch to authSlice; the refresh effect is due when isAuthenticated
\* has changed.
AuthDispatch(new) ==
  /\ auth' = new
  /\ authEffectDue' = (authEffectDue
                         \/ new.isAuthenticated # auth.isAuthenticated)

\* login(email, password): loginStart, then the request
Login ==
  /\ logins < MaxRequests
  /\ AuthDispatch(loginStart(auth))
  /\ logins' = logins + 1
  /\ UNCHANGED <<authTimer, refreshes>>
  /\ UNCHANGED authRest

\* the login request is answered
LoginOk(u, exp) ==
  /\ logins > 0
  /\ logins' = logins - 1
  /\ AuthDispatch(loginSuccess(auth, [user |-> u, accessExp |-> exp]))
  /\ UNCHANGED <<authTimer, refreshes>>
  /\ UNCHANGED authRest

\* the login request fails
LoginFails(e) ==
  /\ logins > 0
  /\ logins' = logins - 1
  /\ AuthDispatch(loginFailure(auth, e))
  /\ UNCHANGED <<authTimer, refreshes>>
  /\ UNCHANGED authRest

\* logout()
Logout ==
  /\ AuthDispatch(logout(auth))
  /\ UNCHANGED <<authTimer, logins, refreshes>>
  /\ UNCHANGED authRest

\* the refresh effect: setInterval when authenticated, clearInterval when not
RefreshEffect ==
  /\ authEffectDue
  /\ authEffectDue' = FALSE
  /\ authTimer' = auth.isAuthenticated
  /\ UNCHANGED <<auth, logins, refreshes>>
  /\ UNCHANGED authRest

\* the interval fires: refreshTokenApi() is called
RefreshTick ==
  /\ authTimer
  /\ refreshes < MaxRequests
  /\ refreshes' = refreshes + 1
  /\ UNCHANGED <<auth, authEffectDue, authTimer, logins>>
  /\ UNCHANGED authRest

\* the refresh request is answered: dispatch(refreshToken(accessExp))
RefreshOk(exp) ==
  /\ refreshes > 0
  /\ refreshes' = refreshes - 1
  /\ AuthDispatch(refreshToken(auth, exp))
  /\ UNCHANGED <<authTimer, logins>>
  /\ UNCHANGED authRest

\* the refresh request fails: dispatch(logout())
RefreshFails ==
  /\ refreshes > 0
  /\ refreshes' = refreshes - 1
  /\ AuthDispatch(logout(auth))
  /\ UNCHANGED <<authTimer, logins>>
  /\ UNCHANGED authRest

AuthNext ==
  \/ Login
  \/ \E u \in UserIds : \E exp \in Expiries : LoginOk(u, exp)
  \/ \E e \in LoginErrors : LoginFails(e)
  \/ Logout
  \/ RefreshEffect
  \/ RefreshTick
  \/ \E exp \in Expiries : RefreshOk(exp)
  \/ RefreshFails

AuthSpec == Init /\ [][AuthNext]_vars

\* The auth state is the logged-out one.
LoggedOut(state) ==
  state.user = Null /\ state.accessExp = NoExpiry /\ ~state.isAuthenticated

----
TypeOK ==
  /\ Len(store) <= MaxEdits
  /\ Len(hist) = Len(store)
  /\ pendingCount \in 0..MaxEdits
  /\ \A s \in Slots : Active(s) =>
       /\ drains[s].phase \in {"read", "send", "mark"}
       /\ drains[s].phase # "read" => drains[s].idx \in 1..Len(drains[s].snap)

----
\* Observations used by the properties.

Unsynced == {i \in Ids(store) : ~store[i].synced}

DeliveredIds == {delivered[k] : k \in 1..Len(delivered)}

\* In this step the drain in slot s issues a fetch (a send to the server).
FetchIssued(s) ==
  /\ drains'[s].phase = "send"
  /\ drains[s].phase # "send" \/ drains'[s].idx # drains[s].idx

IssuedId(s) == drains'[s].snap[drains'[s].idx]

\* Nothing the event loop could run is ready: no render, effect, count or
\* drain step is pending, so only a new call or event changes the state.
Quiescent ==
  /\ ~countDue
  /\ ~effectDue
  /\ CurrentState = rendered
  /\ ActiveSlots = {}

----
\* C1 (code contradicts it): for one client the queued edits get their ok
\* response in the order addToQueue enqueued them; an edit enqueued later is
\* never delivered before an earlier one.
FifoDelivery ==
  \A j, k \in 1..Len(delivered) : j < k => delivered[j] < delivered[k]

\* C2 (code contradicts it): once a record is flagged synced, no drain sends
\* it to the server again.
SyncedNeverResent ==
  [][\A s \in Slots : FetchIssued(s) => ~store'[IssuedId(s)].synced]_vars

\* C3: a record's synced flag becomes true only after an ok response to a
\* send of that record; a send that throws or returns non-ok leaves the
\* table as it is and does not lead to the update.
SyncedOnlyAfterOk ==
  [][/\ \A i \in Ids(store) :
          (~store[i].synced /\ i \in Ids(store') /\ store'[i].synced)
             => i \in DeliveredIds
     /\ \A s \in Slots : \A o \in {"nonok", "throw"} :
          DrainResponse(s, o) => store' = store /\ drains'[s].phase # "mark"
    ]_vars

\* C3 witness: one record is synced after its ok response while another,
\* whose latest send failed, is still unsynced.
SyncedOnlyAfterOkWitness ==
  \E i, j \in Ids(store) :
    /\ store[i].synced /\ i \in DeliveredIds
    /\ ~store[j].synced /\ hist[j].out \in {"nonok", "throw"}

\* C4: every record stays in the table, with its data, and unsynced until an
\* ok response to a send of it; closing the view, a restart and the drains
\* delete nothing.
UnsyncedNeverLost ==
  [][\A i \in Ids(store) :
       /\ i \in Ids(store')
       /\ store'[i].data = store[i].data
       /\ (~store[i].synced /\ store'[i].synced) => i \in DeliveredIds
    ]_vars

\* C4 witness: the view is closed while a drain it started is still running
\* and a record is unsynced.
UnsyncedNeverLostWitness ==
  /\ ~mounted
  /\ Unsynced # {}
  /\ \E s \in Slots : Active(s) /\ drains[s].orphan

\* C5 (code contradicts it): every enqueued edit is eventually delivered
\* once the client is online.  Stated on the states where the queue has
\* nothing left to run: online and idle, nothing is left unsynced.
DeliveredWhenOnlineAndIdle ==
  (mounted /\ navOnline /\ isOnline /\ Quiescent) => Unsynced = {}

\* C6 (code contradicts it): a record whose send failed with a network error
\* is re-attempted by the queue itself: while it is unsynced the queue has a
\* step of its own left to run.
FailedSendIsRetried ==
  \A i \in Unsynced : (mounted /\ hist[i].out = "throw") => ~Quiescent

\* C7: when the send of an entry throws or fails, the drain goes on to the
\* next entry of its snapshot: it issues that entry's fetch in the same step.
BadEntryDoesNotStopDrain ==
  [][\A s \in Slots : \A o \in {"nonok", "throw"} :
       (DrainResponse(s, o) /\ drains[s].idx < Len(drains[s].snap))
          => /\ drains'[s].phase = "send"
             /\ drains'[s].snap = drains[s].snap
             /\ drains'[s].idx = drains[s].idx + 1
    ]_vars

\* C7 witness: a drain is sending a later entry of its snapshot while the
\* first entry, whose send threw, is still unsynced.
BadEntryDoesNotStopDrainWitness ==
  \E s \in Slots :
    /\ drains[s].phase = "send" /\ drains[s].idx > 1
    /\ hist[drains[s].snap[1]].out = "throw"
    /\ ~store[drains[s].snap[1]].synced

\* C8 (code contradicts it): a record the server rejected (non-ok) is never
\* sent again with the payload that was rejected.
RejectedNeverResentVerbatim ==
  [][\A s \in Slots :
       FetchIssued(s) =>
         ~(/\ hist[IssuedId(s)].out = "nonok"
           /\ hist[IssuedId(s)].data = store'[IssuedId(s)].data)
    ]_vars

\* C9: the hook has just been mounted while online with an unsynced record
\* in the table: its mount-time count is still to come, and it has counted,
\* rendered and started nothing yet.
ReopenedOnline ==
  /\ mounted /\ countDue /\ navOnline /\ Unsynced # {}
  /\ CurrentState = InitialState /\ rendered = InitialState /\ ~effectDue
  /\ \A s \in Slots : Active(s) => drains[s].orphan

\* A drain started by the mounted hook is running.
DrainRunning == \E s \in Slots : Active(s) /\ ~drains[s].orphan

\* C9 as stated: after a reopen while online with unsynced records a drain is
\* started by the hook itself (unless the view is closed or the client goes
\* offline first).
ResumeOnReopenAlways ==
  ReopenedOnline ~> (DrainRunning \/ ~mounted \/ ~navOnline)

\* C9 amended: ... or every such record has been marked synced meanwhile by a
\* drain that a previous view left running.
ResumeOnReopen ==
  ReopenedOnline ~> (DrainRunning \/ ~mounted \/ ~navOnline \/ Unsynced = {})

\* C9 witness: after the mount-time count the hook's own drain is sending
\* the records an earlier drain failed to deliver (pendingCount is the count
\* that was read: every record of the snapshot was tried before).
ResumeOnReopenWitness ==
  /\ mounted /\ ~countDue /\ navOnline
  /\ \E s \in Slots :
       /\ drains[s].phase = "send" /\ ~drains[s].orphan /\ drains[s].idx = 1
       /\ pendingCount = Len(drains[s].snap)
       /\ \A k \in 1..Len(drains[s].snap) :
            hist[drains[s].snap[k]].out \in {"nonok", "throw"}
       /\ \A t \in Slots : t # s => ~Active(t)

\* C10: addToQueue is accepted in every connection and sync state, and every
\* call so far has its own record in the table, in call order, with the data
\* it was called with.
EnqueueAlwaysAccepted ==
  /\ (mounted /\ Len(store) < MaxEdits)
       => \A p \in Payloads : ENABLED AddToQueue(p)
  /\ Len(store) = Len(hist)
  /\ \A i \in Ids(store) : store[i].data = hist[i].arg

\* C10 witness: a record was added while offline and while the hook's drain
\* was past its read (the record is not in the drain's snapshot).
EnqueueAlwaysAcceptedWitness ==
  /\ mounted /\ ~isOnline /\ isSyncing
  /\ \E s \in Slots :
       /\ drains[s].phase \in {"send", "mark"} /\ ~drains[s].orphan
       /\ \E i \in Unsynced : \A k \in 1..Len(drains[s].snap) : drains[s].snap[k] < i


----
\* C11 (code contradicts it): when the stream of a connection drops (a network
\* error, after which the browser has put the EventSource back to
\* "connecting" to retry on its own), the connection is left reconnecting: an
\* error never takes it to the terminal closed state.
ErrorLeavesReconnecting ==
  [][\A c \in Conns :
       OnError(c, "network", FALSE) => conn'[c] = "connecting"]_vars

\* C12: a stopEventSource call or the unmount leaves the ref null, isConnected
\* false and the connection it found in the ref closed, and no open or message
\* callback runs afterwards for a connection cancelled this way.
CancelClosesSubscription ==
  [][/\ (StopEventSource \/ EsUnmount) =>
          /\ esRef' = 0
          /\ ~esConnected'
          /\ \A c \in CurrentConn : conn'[c] = "closed"
     /\ \A c \in esCancelled :
          /\ ~OnOpen(c)
          /\ \A parses \in BOOLEAN : ~OnMessage(c, parses)]_vars

\* C12 witness: the only connection made so far was open and had delivered a
\* message, no error has occurred, and a stopEventSource call has closed it.
CancelClosesSubscriptionWitness ==
  /\ esMounted
  /\ Created = {1}
  /\ esCancelled = {1}
  /\ conn[1] = "closed"
  /\ esData > 0
  /\ esErrCalls = 0
  /\ esRef = 0 /\ ~esConnected

\* C13 (code contradicts it): replicas that start from the same state and
\* have applied the same set of edits, each in its own order, hold the same
\* sections.
ReplicasConverge ==
  \A r1, r2 \in Replicas :
    applied[r1] = applied[r2] => replica[r1].sections = replica[r2].sections

\* C14 (code contradicts it): dispatching once more an edit that a replica has
\* already applied leaves the replica's state unchanged, whatever other edits
\* it has applied in between.
ReplayIsNoOp ==
  [][\A r \in Replicas : \A e \in Sections :
       Replay(r, e) => replica'[r] = replica[r]]_vars

\* C15 (code contradicts it): every accepted edit (an updateSection dispatch)
\* leaves the document with a currentVersion one greater than before.
VersionCountsEdits ==
  [][\A payload \in Sections :
       UpdateSection(payload) =>
         /\ "currentVersion" \in DOMAIN doc
         /\ "currentVersion" \in DOMAIN doc'
         /\ doc'.currentVersion = doc.currentVersion + 1]_vars

\* C16 (code contradicts it): a remote user listed in users whose last
\* heartbeat is older than the timeout and whose tab is closed is eventually
\* absent from users.
StaleUserLeaves ==
  \A u \in RemoteUsers :
    (u \in users /\ Stale(u) /\ ~tabOpen[u]) ~> (u \notin users)

\* C17 (code contradicts it): no dispatch of a docSlice reducer removes a
\* section id from sections.
SectionsNeverDeleted ==
  [][DOMAIN doc.sections \subseteq DOMAIN doc'.sections]_vars

\* C18: whenever the panel shows its Save button, the save can run, whatever
\* the connectivity and the state of the queue, and the step that runs it
\* leaves the panel's content in the store's section.
SaveAppliesAtOnce ==
  [][/\ (PanelShown /\ panel.isEditing) => ENABLED HandleSave
     /\ HandleSave =>
          doc'.sections[PanelSection].content = panel.content]_vars

\* C18 witness: a save has run while the client was offline, isSyncing was
\* true and a request of the drain was pending, and the store holds the
\* content typed in the panel.
SaveAppliesAtOnceWitness ==
  /\ savedBusy
  /\ ~panel.isEditing
  /\ PanelShown
  /\ doc.sections[PanelSection].content = panel.content

\* C19 (code contradicts it): at most one drain started by the mounted hook
\* is running at any time.
OneDrainPerHook ==
  Cardinality({s \in Slots : Active(s) /\ ~drains[s].orphan}) <= 1

\* C20 (code contradicts it): while the hook is mounted and neither its
\* mount-time count, nor an addToQueue call, nor a drain is in flight,
\* pendingCount is the number of records in the store that are not synced.
PendingCountIsUnsyncedCount ==
  (mounted /\ ~countDue /\ ActiveSlots = {})
    => pendingCount = UnsyncedCount(store)

\* C21: every running drain ends, also when its read of the store throws,
\* and the step that ends a drain of the mounted hook leaves isSyncing false.
DrainTerminates ==
  /\ \A s \in Slots : Active(s) ~> ~Active(s)
  /\ [][\A s \in Slots :
          (Active(s) /\ drains'[s].phase = "idle" /\ ~drains[s].orphan)
            => ~isSyncing']_vars

\* C21 witness: reads of the store have thrown, sends have thrown and been
\* answered non-ok and ok, and no drain is left running: isSyncing is false.
DrainTerminatesWitness ==
  /\ mounted /\ ~isSyncing /\ ActiveSlots = {}
  /\ readThrew
  /\ \E i \in Ids(hist) : hist[i].out = "throw"
  /\ \E i \in Ids(hist) : hist[i].out = "nonok"

\* C22 (code contradicts it): on a client that stays online, once the queue
\* has nothing left to run every enqueued edit has been sent at least once,
\* also an edit that was enqueued while a drain was in progress.
EnqueuedDuringDrainIsSent ==
  (mounted /\ Quiescent) => \A i \in Ids(hist) : hist[i].out # "none"

ConnectedOnlyWhileOpen ==
  /\ [](esConnected => (esRef # 0 /\ conn[esRef] = "open"))
  /\ [][(\/ StopEventSource
         \/ \E c \in Conns : \E kind \in ErrorKinds : \E parses \in BOOLEAN :
              OnError(c, kind, parses))
          => (~esConnected' /\ esRef' = 0)]_vars

\* C24 witness: the only connection made was open, delivered data, and an
\* error event has ended it: isConnected is false and the ref is null.
ConnectedOnlyWhileOpenWitness ==
  /\ esMounted
  /\ Created = {1} /\ conn[1] = "closed"
  /\ esError /\ esErrCalls > 0
  /\ esData > 0
  /\ ~esConnected /\ esRef = 0

\* C25 (code contradicts it): the handling of one error event of a connection
\* invokes the caller's onError exactly once.
OnErrorCalledOnce ==
  [][\A c \in Conns : \A kind \in ErrorKinds : \A parses \in BOOLEAN :
       OnError(c, kind, parses) => esErrCalls' = 1]_vars

\* C26 (code contradicts it): an open, message or error event of a
\* connection that a newer startEventSource call has superseded leaves the
\* newest connection as it is, and leaves the ref alone while the newest
\* connection is open.
LateEventSparesNewer ==
  [][\A c \in Conns :
       (/\ Superseded(c)
        /\ \/ RefOnOpen(c)
           \/ RefOnMessage(c)
           \/ \E kind \in ErrorKinds : RefOnError(c, kind))
         => /\ conn'[Newest] = conn[Newest]
            /\ conn[Newest] = "open" => esRef' = esRef]_vars

\* C27 (code contradicts it): once the auth state is logged out (user null,
\* accessExp null, isAuthenticated false) it stays so until a loginSuccess
\* is dispatched, also when a refresh request answers meanwhile.
StaysLoggedOut ==
  [][LoggedOut(auth) =>
       \/ LoggedOut(auth')
       \/ \E u \in UserIds : \E exp \in Expiries : LoginOk(u, exp)]_vars
====
